---- MODULE Spec2Model ----
(***************************************************************************)
(* pmatrix-encoder: the runtime state record, the 5-mode partition mapping, *)
(* the twelve invariant checks, the stream check, the demonstration        *)
(* emitter and the validate command, as a state machine whose steps are    *)
(* single calls of the public operations.                                  *)
(***************************************************************************)
EXTENDS Integers, Naturals, Sequences, FiniteSets, TLC

(***************************************************************************)
(* f64.  A value is NaN, an infinity, or a finite number                   *)
(* sign * M * 2^e with M = hi * 2^30 + lo, 0 <= lo < 2^30, as IEEE-754     *)
(* binary64 stores it: 2^52 <= M < 2^53 and -1074 <= e <= 971 for a normal *)
(* number, M < 2^52 and e = -1074 for a subnormal number and for zero.     *)
(* +, /4 and 1 - x below are the IEEE-754 operations (round to nearest,    *)
(* ties to even) and not real arithmetic: 0.8 is the f64 0.8.              *)
(***************************************************************************)
Fin(neg, hi, lo, e) == [k |-> "fin", neg |-> neg, hi |-> hi, lo |-> lo, e |-> e]
Pos(hi, lo, e) == Fin(FALSE, hi, lo, e)
Neg(hi, lo, e) == Fin(TRUE, hi, lo, e)

NaN == [k |-> "nan", neg |-> FALSE, hi |-> 0, lo |-> 0, e |-> 0]
PInf == [k |-> "inf", neg |-> FALSE, hi |-> 0, lo |-> 0, e |-> 0]
NInf == [k |-> "inf", neg |-> TRUE, hi |-> 0, lo |-> 0, e |-> 0]

\* The f64 nearest to each decimal literal.
F0 == Pos(0, 0, -1074)
FNeg0 == Neg(0, 0, -1074)
F0_19999999 == Pos(6710886, 69208759, -55)
F0_2 == Pos(6710886, 429496730, -55)
F0_25 == Pos(4194304, 0, -54)
F0_3 == Pos(5033164, 858993459, -54)
F0_35 == Pos(5872025, 644245094, -54)
F0_3625 == Pos(6081740, 858993459, -54)
F0_4 == Pos(6710886, 429496730, -54)
F0_42 == Pos(7046430, 773094113, -54)
F0_5 == Pos(4194304, 0, -53)
F0_58 == Pos(4865392, 687194767, -53)
F0_6 == Pos(5033164, 858993459, -53)
F0_6375 == Pos(5347737, 644245094, -53)
F0_7 == Pos(5872025, 644245094, -53)
F0_8 == Pos(6710886, 429496730, -53)
F1 == Pos(4194304, 0, -52)
F1_001 == Pos(4198498, 326417514, -52)
F1_5 == Pos(6291456, 0, -52)
FNeg0_1 == Neg(6710886, 429496730, -56)
\* The f64 just below 0.2, 0.4, 0.6, 0.8 and 1.0, and the f64 just above 1.0
\* (one unit in the last place).
F0_2_pred == Pos(6710886, 429496729, -55)
F0_4_pred == Pos(6710886, 429496729, -54)
F0_6_pred == Pos(5033164, 858993458, -53)
F0_8_pred == Pos(6710886, 429496729, -53)
F1_pred == Pos(8388607, 1073741823, -53)
F1_succ == Pos(4194304, 1, -52)

is_nan(x) == x.k = "nan"
is_infinite(x) == x.k = "inf"
IsZero(x) == x.k = "fin" /\ x.hi = 0 /\ x.lo = 0

\* |x| < |y| for non-NaN values; an infinity is above every finite value.
MagLt(x, y) ==
    IF x.k = "inf" THEN FALSE
    ELSE IF y.k = "inf" THEN TRUE
    ELSE \/ x.e < y.e
         \/ x.e = y.e /\ x.hi < y.hi
         \/ x.e = y.e /\ x.hi = y.hi /\ x.lo < y.lo

\* x < y of f64: false when either side is NaN; -0.0 and 0.0 are equal.
f64_lt(x, y) ==
    /\ ~is_nan(x)
    /\ ~is_nan(y)
    /\ \/ x.neg /\ ~y.neg /\ ~(IsZero(x) /\ IsZero(y))
       \/ ~x.neg /\ ~y.neg /\ MagLt(x, y)
       \/ x.neg /\ y.neg /\ MagLt(y, x)

f64_gt(x, y) == f64_lt(y, x)

\* x <= y of f64: false when either side is NaN.
f64_le(x, y) == ~is_nan(x) /\ ~is_nan(y) /\ ~f64_lt(y, x)

\* (0.0..=1.0).contains(&v)
unit_range_contains(v) == f64_le(F0, v) /\ f64_le(v, F1)

(***************************************************************************)
(* f64 arithmetic.  A magnitude in work is a pair <<hi, lo>> with value    *)
(* hi * 2^30 + lo below 2^60.                                              *)
(***************************************************************************)
RECURSIVE BitLen(_)
BitLen(n) == IF n = 0 THEN 0 ELSE 1 + BitLen(n \div 2)

WBitLen(a) == IF a[1] > 0 THEN 30 + BitLen(a[1]) ELSE BitLen(a[2])

WAdd(a, b) == <<a[1] + b[1] + (a[2] + b[2]) \div 2^30, (a[2] + b[2]) % 2^30>>

\* a - b for a >= b.
WSub(a, b) ==
    IF a[2] >= b[2] THEN <<a[1] - b[1], a[2] - b[2]>>
    ELSE <<a[1] - b[1] - 1, a[2] + 2^30 - b[2]>>

\* a <= b.
WLe(a, b) == a[1] < b[1] \/ (a[1] = b[1] /\ a[2] <= b[2])

\* a * 2^n, for a result below 2^60.
Shl(a, n) ==
    IF n >= 30 THEN <<a[2] * 2^(n - 30), 0>>
    ELSE <<a[1] * 2^n + a[2] \div 2^(30 - n), (a[2] % 2^(30 - n)) * 2^n>>

\* a \div 2^n, with the lowest bit set when a nonzero bit is shifted out.
ShrSticky(a, n) ==
    IF n = 0 THEN a
    ELSE IF n >= 60 THEN <<0, IF a[1] = 0 /\ a[2] = 0 THEN 0 ELSE 1>>
    ELSE IF n >= 30
    THEN LET q == a[1] \div 2^(n - 30)
             lost == a[1] % 2^(n - 30) # 0 \/ a[2] # 0
         IN  <<0, IF lost /\ q % 2 = 0 THEN q + 1 ELSE q>>
    ELSE LET q == (a[1] % 2^n) * 2^(30 - n) + a[2] \div 2^n
             lost == a[2] % 2^n # 0
         IN  <<a[1] \div 2^n, IF lost /\ q % 2 = 0 THEN q + 1 ELSE q>>

\* The f64 with magnitude M * 2^e, an infinity when e is above the range.
Pack(neg, a, e) == IF e > 971 THEN (IF neg THEN NInf ELSE PInf) ELSE Fin(neg, a[1], a[2], e)

\* The f64 nearest to a * 2^w, ties to even: a is cut to 53 significant
\* bits, or to the bits at and above 2^-1074.
RoundPack(neg, a, w) ==
    LET len == WBitLen(a)
        e == IF w + len - 53 > -1074 THEN w + len - 53 ELSE -1074
        sh == e - w
    IN  IF len = 0 THEN Fin(neg, 0, 0, -1074)
        ELSE IF sh <= 0 THEN Pack(neg, Shl(a, -sh), e)
        ELSE LET q_hi == a[1] \div 2^sh
                 q_lo == (a[1] % 2^sh) * 2^(30 - sh) + a[2] \div 2^sh
                 r == a[2] % 2^sh
                 half == 2^(sh - 1)
                 up == r > half \/ (r = half /\ q_lo % 2 = 1)
                 m == IF ~up THEN <<q_hi, q_lo>>
                      ELSE IF q_lo + 1 = 2^30 THEN <<q_hi + 1, 0>>
                      ELSE <<q_hi, q_lo + 1>>
             IN  IF m[1] = 2^23 THEN Pack(neg, <<2^22, 0>>, e + 1) ELSE Pack(neg, m, e)

\* |x| + |y| (or |x| - |y|) for |x| >= |y|, with the sign given: both at the
\* scale of x with three more bits, the last of them sticky.
MagSum(neg, x, y, minus) ==
    LET a == Shl(<<x.hi, x.lo>>, 3)
        b == ShrSticky(Shl(<<y.hi, y.lo>>, 3), x.e - y.e)
    IN  RoundPack(neg, IF minus THEN WSub(a, b) ELSE WAdd(a, b), x.e - 3)

f64_neg(x) == IF is_nan(x) THEN x ELSE [x EXCEPT !.neg = ~x.neg]

\* x + y of f64.
f64_add(x, y) ==
    IF is_nan(x) \/ is_nan(y) THEN NaN
    ELSE IF is_infinite(x)
         THEN IF is_infinite(y) /\ x.neg # y.neg THEN NaN ELSE x
    ELSE IF is_infinite(y) THEN y
    ELSE IF x.neg = y.neg
         THEN IF MagLt(x, y) THEN MagSum(x.neg, y, x, FALSE) ELSE MagSum(x.neg, x, y, FALSE)
    ELSE IF MagLt(y, x) THEN MagSum(x.neg, x, y, TRUE)
    ELSE IF MagLt(x, y) THEN MagSum(y.neg, y, x, TRUE)
    ELSE F0

\* x - y of f64.
f64_sub(x, y) == f64_add(x, f64_neg(y))

\* x / 4.0 of f64: the exponent lowered by two, rounded where the result is
\* subnormal.
f64_div4(x) ==
    IF x.k # "fin" THEN x
    ELSE RoundPack(x.neg, <<x.hi, x.lo>>, x.e - 2)

\* n as f64, for an integer n of magnitude below 2^31 (exact).
int_to_f64(n) ==
    IF n < 0 THEN RoundPack(TRUE, <<(0 - n) \div 2^30, (0 - n) % 2^30>>, 0)
    ELSE RoundPack(FALSE, <<n \div 2^30, n % 2^30>>, 0)

(***************************************************************************)
(* Numbers wider than a magnitude in work: a natural number as the         *)
(* sequence of its digits in base 2^15, the lowest first, without zeros at *)
(* the high end; zero is the empty sequence.                               *)
(***************************************************************************)
Limb == 2^15

RECURSIVE BTrim(_)
BTrim(a) == IF a # <<>> /\ a[Len(a)] = 0 THEN BTrim(SubSeq(a, 1, Len(a) - 1)) ELSE a

\* An integer below 2^31; a magnitude <<hi, lo>>, and back (for a value
\* below 2^60).
BFromInt(n) == BTrim(<<n % Limb, (n \div Limb) % Limb, n \div (Limb * Limb)>>)
BFromW(w) ==
    BTrim(<<w[2] % Limb, w[2] \div Limb, w[1] % Limb, (w[1] \div Limb) % Limb,
            w[1] \div (Limb * Limb)>>)
BToW(a) ==
    LET limb(i) == IF i <= Len(a) THEN a[i] ELSE 0
    IN  <<limb(3) + limb(4) * Limb, limb(1) + limb(2) * Limb>>

BBitLen(a) == IF a = <<>> THEN 0 ELSE 15 * (Len(a) - 1) + BitLen(a[Len(a)])

\* a * m + c for m and c up to 2^15, a kept at its length: <<digits, carry>>.
RECURSIVE BMulAdd(_, _, _)
BMulAdd(a, m, c) ==
    IF a = <<>> THEN <<a, c>>
    ELSE IF Len(a) = 1 THEN <<<<(a[1] * m + c) % Limb>>, (a[1] * m + c) \div Limb>>
    ELSE LET low == BMulAdd(SubSeq(a, 1, Len(a) \div 2), m, c)
             high == BMulAdd(SubSeq(a, Len(a) \div 2 + 1, Len(a)), m, low[2])
         IN  <<low[1] \o high[1], high[2]>>

BMulSmall(a, m) == LET r == BMulAdd(a, m, 0) IN BTrim(Append(r[1], r[2]))

\* The digits i..j of a + b + c for a carry c of 0 or 1: <<digits, carry>>.
RECURSIVE BAddRange(_, _, _, _, _)
BAddRange(a, b, i, j, c) ==
    IF i = j
    THEN LET t == (IF i <= Len(a) THEN a[i] ELSE 0) + (IF i <= Len(b) THEN b[i] ELSE 0) + c
         IN  <<<<t % Limb>>, t \div Limb>>
    ELSE LET low == BAddRange(a, b, i, (i + j) \div 2, c)
             high == BAddRange(a, b, (i + j) \div 2 + 1, j, low[2])
         IN  <<low[1] \o high[1], high[2]>>

BAdd(a, b) ==
    LET n == IF Len(a) > Len(b) THEN Len(a) ELSE Len(b)
        r == BAddRange(a, b, 1, n, 0)
    IN  IF n = 0 THEN <<>> ELSE BTrim(Append(r[1], r[2]))

RECURSIVE BMul(_, _)
BMul(a, b) ==
    IF a = <<>> \/ b = <<>> THEN <<>>
    ELSE LET rest == BMul(a, Tail(b))
         IN  BAdd(BMulSmall(a, b[1]), IF rest = <<>> THEN rest ELSE <<0>> \o rest)

\* The digits i..j of a with r carried in from above them, divided by d, for
\* d up to 2^15: <<digits of the quotient, the highest first, remainder>>.
RECURSIVE BDivRange(_, _, _, _, _)
BDivRange(a, d, i, j, r) ==
    IF i = j THEN <<<<(r * Limb + a[i]) \div d>>, (r * Limb + a[i]) % d>>
    ELSE LET high == BDivRange(a, d, (i + j) \div 2 + 1, j, r)
             low == BDivRange(a, d, i, (i + j) \div 2, high[2])
         IN  <<high[1] \o low[1], low[2]>>

\* <<a \div d, a % d>>.
BDivSmall(a, d) ==
    LET qr == BDivRange(a, d, 1, Len(a), 0)
    IN  IF a = <<>> THEN <<a, 0>>
        ELSE <<BTrim([i \in 1..Len(a) |-> qr[1][Len(a) + 1 - i]]), qr[2]>>

\* a * 2^n.
BShl(a, n) ==
    IF a = <<>> THEN a
    ELSE [i \in 1..(n \div 15) |-> 0] \o BMulSmall(a, 2^(n % 15))

\* a * 10^k.
RECURSIVE BMulPow10(_, _)
BMulPow10(a, k) ==
    IF k = 0 \/ a = <<>> THEN a
    ELSE IF k <= 4 THEN BMulSmall(a, 10^k)
    ELSE BMulPow10(BMulPow10(a, k \div 2), k - k \div 2)

BPow10(k) == BMulPow10(<<1>>, k)

\* <<a \div 10^k, is there a remainder>>.
RECURSIVE BDivPow10(_, _)
BDivPow10(a, k) ==
    IF k = 0 \/ a = <<>> THEN <<a, FALSE>>
    ELSE IF k <= 4 THEN LET qr == BDivSmall(a, 10^k) IN <<qr[1], qr[2] # 0>>
    ELSE LET first == BDivPow10(a, k \div 2)
             second == BDivPow10(first[1], k - k \div 2)
         IN  <<second[1], first[2] \/ second[2]>>

\* The f64 nearest to a * 2^w for a magnitude in work: where the result is
\* subnormal and more than two bits are cut, all but two are cut first, the
\* lowest bit kept set when a nonzero bit is lost.
RoundWide(neg, a, w) ==
    LET sh == (0 - 1074) - w
    IN  IF sh > 2 /\ w + WBitLen(a) - 53 <= 0 - 1074
        THEN RoundPack(neg, ShrSticky(a, sh - 2), w + sh - 2)
        ELSE RoundPack(neg, a, w)

\* The f64 nearest to a * 2^w: a number longer than 58 bits is cut to its 58
\* highest bits and a lowest bit that is set when a nonzero bit is lost.
RoundBig(neg, a, w) ==
    LET len == BBitLen(a)
        s == len - 58
        low == SubSeq(a, 1, s \div 15)
        high == BDivSmall(SubSeq(a, s \div 15 + 1, Len(a)), 2^(s % 15))
        lost == high[2] # 0 \/ \E i \in 1..Len(low) : low[i] # 0
        q == BToW(high[1])
    IN  IF len <= 58 THEN RoundWide(neg, BToW(a), w)
        ELSE RoundWide(neg, WAdd(WAdd(q, q), <<0, IF lost THEN 1 ELSE 0>>), w + s - 1)

\* x * y of f64.
f64_mul(x, y) ==
    IF is_nan(x) \/ is_nan(y) THEN NaN
    ELSE IF is_infinite(x) \/ is_infinite(y)
         THEN IF IsZero(x) \/ IsZero(y) THEN NaN
              ELSE IF x.neg # y.neg THEN NInf ELSE PInf
    ELSE RoundBig(x.neg # y.neg, BMul(BFromW(<<x.hi, x.lo>>), BFromW(<<y.hi, y.lo>>)),
                  x.e + y.e)

\* n more bits of the quotient of rem / d for rem < d < 2^53: <<q, rem>>.
RECURSIVE DivBits(_, _, _, _)
DivBits(rem, d, q, n) ==
    IF rem = <<0, 0>> THEN <<Shl(q, n), rem>>
    ELSE IF n = 1
    THEN LET r == WAdd(rem, rem)
             qq == WAdd(q, q)
         IN  IF WLe(d, r) THEN <<WAdd(qq, <<0, 1>>), WSub(r, d)>> ELSE <<qq, r>>
    ELSE LET first == DivBits(rem, d, q, n \div 2)
         IN  DivBits(first[2], d, first[1], n - n \div 2)

\* x / y of f64: both magnitudes brought to 53 bits, the quotient taken to 57
\* bits after the point, and a lowest bit for what remains.
f64_div(x, y) ==
    IF is_nan(x) \/ is_nan(y) THEN NaN
    ELSE IF is_infinite(x)
         THEN IF is_infinite(y) THEN NaN ELSE IF x.neg # y.neg THEN NInf ELSE PInf
    ELSE IF is_infinite(y) THEN Fin(x.neg # y.neg, 0, 0, -1074)
    ELSE IF IsZero(y)
         THEN IF IsZero(x) THEN NaN ELSE IF x.neg # y.neg THEN NInf ELSE PInf
    ELSE IF IsZero(x) THEN Fin(x.neg # y.neg, 0, 0, -1074)
    ELSE LET sx == 53 - WBitLen(<<x.hi, x.lo>>)
             sy == 53 - WBitLen(<<y.hi, y.lo>>)
             a == Shl(<<x.hi, x.lo>>, sx)
             d == Shl(<<y.hi, y.lo>>, sy)
             first == WLe(d, a)
             qr == DivBits(IF first THEN WSub(a, d) ELSE a, d,
                           <<0, IF first THEN 1 ELSE 0>>, 57)
             lost == qr[2] # <<0, 0>>
         IN  RoundWide(x.neg # y.neg,
                       WAdd(WAdd(qr[1], qr[1]), <<0, IF lost THEN 1 ELSE 0>>),
                       (x.e - sx) - (y.e - sy) - 58)

(***************************************************************************)
(* Decimal literals.  The digits of a literal, taken as one integer, are a *)
(* pair <<high, low>> in base 10^9 (0.58 has the digits <<0, 58>>).        *)
(***************************************************************************)
BFromDecimal(significand) ==
    BAdd(BMulSmall(BMulSmall(BFromInt(significand[1]), 31250), 32000),
         BFromInt(significand[2]))

\* significand as f64
u64_to_f64(significand) == RoundBig(FALSE, BFromDecimal(significand), 0)

\* The f64 nearest to 10^k: the literal 1e<k> of a POW10 table.
POW10(k) == RoundBig(FALSE, BPow10(k), 0)

\* The f64 nearest to significand * 10^exponent, an infinity above the range
\* of f64.  Below 10^-345 the product is under half of the least f64; the
\* quotient by a power of ten is taken with 60 bits or more.
nearest_f64(significand, exponent) ==
    LET n == BFromDecimal(significand)
        k == 4 * (0 - exponent) + 60
        qr == BDivPow10(BShl(n, k), 0 - exponent)
    IN  IF n = <<>> THEN F0
        ELSE IF exponent > 310 THEN PInf
        ELSE IF exponent >= 0 THEN RoundBig(FALSE, BMulPow10(n, exponent), 0)
        ELSE IF exponent < -345 THEN F0
        ELSE RoundBig(FALSE, BAdd(BShl(qr[1], 1), IF qr[2] THEN <<1>> ELSE <<>>),
                      (0 - k) - 1)

(***************************************************************************)
(* Option<T> and Result<T, E>.                                             *)
(***************************************************************************)
None == [some |-> FALSE]
Some(v) == [some |-> TRUE, v |-> v]
Ok(v) == [ok |-> TRUE, v |-> v]
Err(e) == [ok |-> FALSE, e |-> e]

(***************************************************************************)
(* schema.rs                                                               *)
(***************************************************************************)
MODES == <<"Optimal", "Normal", "Caution", "Alert", "Halt">>
RISK_LEVELS == <<"L1", "L2", "L3", "L4", "L5">>
SPEC_VERSION == "pmatrix-3.5"
\* A string that is split and parsed is a sequence of characters.
SCHEMA_VERSION == <<"1", ".", "0", ".", "0">>

Functions(baseline, norm, stability, meta_control) ==
    [baseline |-> baseline, norm |-> norm,
     stability |-> stability, meta_control |-> meta_control]

RuntimeStateRecord(spec_version, schema_version, timestamp, functions, stability_score, risk_score, mode, risk_level) ==
    [spec_version |-> spec_version, schema_version |-> schema_version,
     timestamp |-> timestamp, functions |-> functions,
     stability_score |-> stability_score, risk_score |-> risk_score,
     mode |-> mode, risk_level |-> risk_level]

(***************************************************************************)
(* mode.rs                                                                 *)
(***************************************************************************)
\* demo_partition_map with 0.2 counted in the lowest band.
demo_partition_map_le(risk_score) ==
    IF f64_lt(risk_score, F0) \/ f64_gt(risk_score, F1) \/ is_nan(risk_score)
    THEN None
    ELSE Some(IF f64_le(risk_score, F0_2) THEN "Optimal"
              ELSE IF f64_lt(risk_score, F0_4) THEN "Normal"
              ELSE IF f64_lt(risk_score, F0_6) THEN "Caution"
              ELSE IF f64_lt(risk_score, F0_8) THEN "Alert"
              ELSE "Halt")

demo_partition_map(risk_score) ==
    IF f64_lt(risk_score, F0) \/ f64_gt(risk_score, F1) \/ is_nan(risk_score)
    THEN None
    ELSE Some(IF f64_lt(risk_score, F0_2) THEN "Optimal"
              ELSE IF f64_lt(risk_score, F0_4) THEN "Normal"
              ELSE IF f64_lt(risk_score, F0_6) THEN "Caution"
              ELSE IF f64_lt(risk_score, F0_8) THEN "Alert"
              ELSE "Halt")

\* mode_to_risk_level with Alert sharing Halt's level.
mode_to_risk_level_dup(mode) ==
    CASE mode = "Optimal" -> Some("L1")
      [] mode = "Normal" -> Some("L2")
      [] mode = "Caution" -> Some("L3")
      [] mode = "Alert" -> Some("L5")
      [] mode = "Halt" -> Some("L5")
      [] OTHER -> None

mode_to_risk_level(mode) ==
    CASE mode = "Optimal" -> Some("L1")
      [] mode = "Normal" -> Some("L2")
      [] mode = "Caution" -> Some("L3")
      [] mode = "Alert" -> Some("L4")
      [] mode = "Halt" -> Some("L5")
      [] OTHER -> None

(***************************************************************************)
(* demo.rs                                                                 *)
(***************************************************************************)
demo_stability_score(f) ==
    f64_div4(f64_add(f64_add(f64_add(f.baseline, f.norm), f.stability),
                     f.meta_control))

\* demo_risk_score without the complement.
demo_risk_score_same(stability_score) == stability_score

demo_risk_score(stability_score) == f64_sub(F1, stability_score)

(***************************************************************************)
(* str::split('.') and str::parse::<u32>() on a sequence of characters.    *)
(***************************************************************************)
Digits == <<"0", "1", "2", "3", "4", "5", "6", "7", "8", "9">>
IsDigit(c) == \E i \in 1..10 : Digits[i] = c
DigitVal(c) == (CHOOSE i \in 1..10 : Digits[i] = c) - 1

\* s.split(sep): the pieces between the separators, empty pieces included.
RECURSIVE split(_, _)
split(s, sep) ==
    IF \A i \in 1..Len(s) : s[i] # sep
    THEN <<s>>
    ELSE LET i == CHOOSE j \in 1..Len(s) :
                      s[j] = sep /\ \A m \in 1..(j - 1) : s[m] # sep
         IN  <<SubSeq(s, 1, i - 1)>> \o split(SubSeq(s, i + 1, Len(s)), sep)

\* The digits' value as <<high, low>> in base 10^5 (u32::MAX is
\* <<42949, 67295>>), or <<-1, -1>> once a character is no digit or the value
\* has passed u32::MAX.
RECURSIVE u32_digits(_, _)
u32_digits(acc, ds) ==
    IF ds = <<>> THEN acc
    ELSE IF ~IsDigit(Head(ds)) THEN <<-1, -1>>
    ELSE LET t == acc[2] * 10 + DigitVal(Head(ds))
             high == acc[1] * 10 + t \div 100000
             low == t % 100000
         IN  IF high > 42949 \/ (high = 42949 /\ low > 67295)
             THEN <<-1, -1>>
             ELSE u32_digits(<<high, low>>, Tail(ds))

\* p.parse::<u32>().is_ok(): an optional '+', then one or more digits whose
\* value fits 32 bits.
parse_u32_is_ok(p) ==
    IF p = <<>> THEN FALSE
    ELSE IF Len(p) = 1 /\ p[1] \in {"+", "-"} THEN FALSE
    ELSE LET ds == IF p[1] = "+" THEN Tail(p) ELSE p
         IN  u32_digits(<<0, 0>>, ds) # <<-1, -1>>

(***************************************************************************)
(* invariants.rs                                                           *)
(***************************************************************************)
InvariantResult(id, passed, detail) ==
    [id |-> id, passed |-> passed, detail |-> detail]

\* |v: f64| (0.0..=1.0).contains(&v) && !v.is_nan()
in_range(v) == unit_range_contains(v) /\ ~is_nan(v)

check_inv_r1(r) ==
    LET f == r.functions
        ok == in_range(f.baseline) /\ in_range(f.norm)
              /\ in_range(f.stability) /\ in_range(f.meta_control)
    IN  InvariantResult("INV-R1", ok,
            IF ok THEN <<"All function values in [0.0, 1.0].">>
            ELSE <<"Function value(s) out of range", f.baseline, f.norm,
                   f.stability, f.meta_control>>)

\* check_inv_r2 with a cross-check of the score against the mean of the
\* function values.
check_inv_r2_mean(r) ==
    LET ok == /\ unit_range_contains(r.stability_score) /\ ~is_nan(r.stability_score)
              /\ check_inv_r1(r).passed => r.stability_score = demo_stability_score(r.functions)
    IN  InvariantResult("INV-R2", ok, <<"stability_score", r.stability_score>>)

check_inv_r2(r) ==
    LET ok == unit_range_contains(r.stability_score) /\ ~is_nan(r.stability_score)
    IN  InvariantResult("INV-R2", ok, <<"stability_score", r.stability_score>>)

check_inv_r3(r) ==
    LET ok == unit_range_contains(r.risk_score) /\ ~is_nan(r.risk_score)
    IN  InvariantResult("INV-R3", ok, <<"risk_score", r.risk_score>>)

\* check_inv_r4 accepting timestamp 0.
check_inv_r4_ge(r) ==
    LET ok == r.timestamp >= 0
    IN  InvariantResult("INV-R4", ok, <<"timestamp", r.timestamp>>)

check_inv_r4(r) ==
    LET ok == r.timestamp > 0
    IN  InvariantResult("INV-R4", ok, <<"timestamp", r.timestamp>>)

check_inv_c1(r) ==
    LET expected == demo_partition_map(r.risk_score)
        ok == IF expected.some THEN expected.v = r.mode ELSE FALSE
    IN  InvariantResult("INV-C1", ok,
            <<"risk_score, expected mode, actual mode", r.risk_score, expected, r.mode>>)

\* check_inv_c2 letting a mode without a risk level pass.
check_inv_c2_unknown_ok(r) ==
    LET expected == mode_to_risk_level(r.mode)
        ok == IF expected.some THEN expected.v = r.risk_level ELSE TRUE
    IN  InvariantResult("INV-C2", ok,
            <<"mode, expected risk_level, actual risk_level", r.mode, expected, r.risk_level>>)

check_inv_c2(r) ==
    LET expected == mode_to_risk_level(r.mode)
        ok == IF expected.some THEN expected.v = r.risk_level ELSE FALSE
    IN  InvariantResult("INV-C2", ok,
            <<"mode, expected risk_level, actual risk_level", r.mode, expected, r.risk_level>>)

\* check_inv_c3 passing when either of the two checks passes.
check_inv_c3_either(r) ==
    LET c1 == check_inv_c1(r).passed
        c2 == check_inv_c2(r).passed
        ok == c1 \/ c2
    IN  InvariantResult("INV-C3", ok,
            IF ok THEN <<"mode and risk_level are mutually consistent with risk_score.">>
            ELSE <<"Mutual consistency violation: mode/risk_level not determined by risk_score.">>)

check_inv_c3(r) ==
    LET c1 == check_inv_c1(r).passed
        c2 == check_inv_c2(r).passed
        ok == c1 /\ c2
    IN  InvariantResult("INV-C3", ok,
            IF ok THEN <<"mode and risk_level are mutually consistent with risk_score.">>
            ELSE <<"Mutual consistency violation: mode/risk_level not determined by risk_score.">>)

check_inv_s1(r) ==
    LET ok == r.spec_version # "" /\ r.schema_version # <<>>
              /\ r.mode # "" /\ r.risk_level # ""
    IN  InvariantResult("INV-S1", ok, <<"All eight required fields present.">>)

check_inv_s2(r) ==
    InvariantResult("INV-S2", TRUE,
        <<"No additional fields (enforced by strict deserialization).">>)

check_inv_s3(r) ==
    LET ok == r.spec_version = SPEC_VERSION
    IN  InvariantResult("INV-S3", ok, <<"spec_version, expected", r.spec_version, SPEC_VERSION>>)

check_inv_s4(r) ==
    LET parts == split(r.schema_version, ".")
        ok == Len(parts) = 3 /\ \A i \in 1..Len(parts) : parse_u32_is_ok(parts[i])
    IN  InvariantResult("INV-S4", ok, <<"schema_version", r.schema_version>>)

check_inv_t1_note ==
    InvariantResult("INV-T1", TRUE,
        <<"Stream-level invariant. Not checkable on a single record.">>)

\* validate_all stopping at the first check that fails.
validate_all_short(record) ==
    LET all == << check_inv_r1(record), check_inv_r2(record), check_inv_r3(record),
                  check_inv_r4(record), check_inv_c1(record), check_inv_c2(record),
                  check_inv_c3(record), check_inv_s1(record), check_inv_s2(record),
                  check_inv_s3(record), check_inv_s4(record), check_inv_t1_note >>
        failed == {i \in 1..12 : ~all[i].passed}
    IN  IF failed = {} THEN all
        ELSE SubSeq(all, 1, CHOOSE i \in failed : \A j \in failed : i <= j)

validate_all(record) ==
    << check_inv_r1(record), check_inv_r2(record), check_inv_r3(record),
       check_inv_r4(record), check_inv_c1(record), check_inv_c2(record),
       check_inv_c3(record), check_inv_s1(record), check_inv_s2(record),
       check_inv_s3(record), check_inv_s4(record), check_inv_t1_note >>

\* is_valid with any() for all().
is_valid_any(record) ==
    LET results == validate_all(record)
    IN  \E i \in 1..Len(results) : results[i].passed

is_valid(record) ==
    LET results == validate_all(record)
    IN  \A i \in 1..Len(results) : results[i].passed

\* The first i in 1..records.len() with a timestamp below its predecessor's;
\* records are indexed from 0 as in the source.
RECURSIVE stream_scan(_, _)
stream_scan(records, i) ==
    IF i >= Len(records) THEN None
    ELSE IF records[i + 1].timestamp < records[i].timestamp THEN Some(i)
    ELSE stream_scan(records, i + 1)

\* validate_stream_t1 reporting equal timestamps too.
RECURSIVE stream_scan_le(_, _)
stream_scan_le(records, i) ==
    IF i >= Len(records) THEN None
    ELSE IF records[i + 1].timestamp <= records[i].timestamp THEN Some(i)
    ELSE stream_scan_le(records, i + 1)

validate_stream_t1_le(records) == stream_scan_le(records, 1)

validate_stream_t1(records) == stream_scan(records, 1)

(***************************************************************************)
(* lib.rs                                                                  *)
(***************************************************************************)
\* A formatted message is the sequence of its pieces: the literal text and
\* the values formatted into it.

\* emit_input_error without the lower bound of the range.
emit_input_error_no_lower(name, val) ==
    IF is_nan(val) \/ is_infinite(val)
    THEN Some(<<name, " is NaN or infinite">>)
    ELSE IF f64_gt(val, F1)
    THEN Some(<<name, " = ", val, " is outside [0.0, 1.0]">>)
    ELSE None

\* The check of one input in emit_demo_record's loop: the error it returns.
emit_input_error(name, val) ==
    IF is_nan(val) \/ is_infinite(val)
    THEN Some(<<name, " is NaN or infinite">>)
    ELSE IF ~unit_range_contains(val)
    THEN Some(<<name, " = ", val, " is outside [0.0, 1.0]">>)
    ELSE None

\* SystemTime::now().duration_since(UNIX_EPOCH).unwrap_or_default().as_secs():
\* clock is what the system clock reads, in whole seconds from the epoch; a
\* reading before the epoch is an Err of duration_since, and the default
\* duration is zero.
now_secs(clock) == IF clock < 0 THEN 0 ELSE clock

\* timestamp: Option<u64>; clock: the reading of the system clock.
emit_demo_record(baseline, norm, stability, meta_control, timestamp, clock) ==
    LET inputs == << <<"baseline", baseline>>, <<"norm", norm>>,
                     <<"stability", stability>>, <<"meta_control", meta_control>> >>
        errs == [i \in 1..4 |-> emit_input_error(inputs[i][1], inputs[i][2])]
        functions == Functions(baseline, norm, stability, meta_control)
        stability_score == demo_stability_score(functions)
        risk_score == demo_risk_score(stability_score)
        mode == demo_partition_map(risk_score)
        risk_level == mode_to_risk_level(mode.v)
        ts == IF timestamp.some THEN timestamp.v ELSE now_secs(clock)
    IN  IF \E i \in 1..4 : errs[i].some
        THEN Err(errs[CHOOSE i \in 1..4 :
                          errs[i].some /\ \A j \in 1..(i - 1) : ~errs[j].some].v)
        ELSE IF ~mode.some THEN Err(<<"risk_score ", risk_score, " out of range">>)
        ELSE IF ~risk_level.some THEN Err(<<"unknown mode ", mode.v>>)
        ELSE Ok(RuntimeStateRecord(SPEC_VERSION, SCHEMA_VERSION, ts, functions,
                                   stability_score, risk_score, mode.v, risk_level.v))

validate_record(record) == validate_all(record)

is_record_valid(record) == is_valid(record)

(***************************************************************************)
(* JSON, as serde_json reads it.  A text is a JSON value (or a place where *)
(* the text is not JSON, or ends), possibly followed by other characters.  *)
(* A number is an integer literal without a sign (uint) or with a minus    *)
(* sign (negint, -0 included), or a literal with a fraction or an exponent *)
(* (float): its sign, its digits taken as one integer, and the power of    *)
(* ten they are counted in, so that 0.58 is 58 * 10^-2 and 1.5e3 is        *)
(* 15 * 10^2.  An object is the sequence of its members <<key, value>> in  *)
(* the order of the text.  A string is held as a whole (s) or, where the   *)
(* program looks at its characters (schema_version), as the sequence of    *)
(* them (cs).                                                              *)
(* An array is the sequence of its items, each standing after the opening  *)
(* bracket or after a comma, and what stands after the last item (end):    *)
(*   "]"   the closing bracket;                                            *)
(*   ",]"  a comma and then the closing bracket;                           *)
(*   ""    nothing, the text ends there;                                   *)
(*   "@"   a character that is neither a comma nor the closing bracket.    *)
(* The place where a value is expected and none stands (invalid) holds a   *)
(* character that begins no JSON value and is not a closing bracket, or    *)
(* the end of the text.                                                    *)
(***************************************************************************)
Literal(neg, significand, exponent) ==
    [neg |-> neg, significand |-> significand, exponent |-> exponent]
NoLiteral == Literal(FALSE, <<0, 0>>, 0)

JValue(t, s, cs, n, x, m, a, end) ==
    [t |-> t, s |-> s, cs |-> cs, n |-> n, x |-> x, m |-> m, a |-> a, end |-> end]
JString(s) == JValue("string", s, <<>>, 0, NoLiteral, <<>>, <<>>, "")
JChars(cs) == JValue("string", "", cs, 0, NoLiteral, <<>>, <<>>, "")
JUInt(n) == JValue("uint", "", <<>>, n, NoLiteral, <<>>, <<>>, "")
JNegInt(n) == JValue("negint", "", <<>>, n, NoLiteral, <<>>, <<>>, "")
JFloat(neg, significand, exponent) ==
    JValue("float", "", <<>>, 0, Literal(neg, significand, exponent), <<>>, <<>>, "")
JBool(b) == JValue("bool", "", <<>>, IF b THEN 1 ELSE 0, NoLiteral, <<>>, <<>>, "")
JNull == JValue("null", "", <<>>, 0, NoLiteral, <<>>, <<>>, "")
JObject(members) == JValue("object", "", <<>>, 0, NoLiteral, members, <<>>, "")
JArray(items, end) == JValue("array", "", <<>>, 0, NoLiteral, <<>>, items, end)
JInvalid == JValue("invalid", "", <<>>, 0, NoLiteral, <<>>, <<>>, "")
Text(value, trailing) == [value |-> value, trailing |-> trailing]

RecordFieldSeq ==
    <<"spec_version", "schema_version", "timestamp", "functions",
      "stability_score", "risk_score", "mode", "risk_level">>
FunctionsFieldSeq == <<"baseline", "norm", "stability", "meta_control">>
RecordFields == {RecordFieldSeq[i] : i \in 1..8}
FunctionsFields == {FunctionsFieldSeq[i] : i \in 1..4}

\* #[derive(Deserialize)]: the fields of a struct and the type of each.
StructFields(ty) == IF ty = "Functions" THEN FunctionsFieldSeq ELSE RecordFieldSeq
FieldType(ty, field) ==
    IF ty = "Functions" THEN "f64"
    ELSE CASE field \in {"spec_version", "mode", "risk_level"} -> "String"
           [] field = "schema_version" -> "String (characters)"
           [] field = "timestamp" -> "u64"
           [] field = "functions" -> "Functions"
           [] OTHER -> "f64"
Build(ty, got) ==
    IF ty = "Functions"
    THEN Functions(got["baseline"], got["norm"], got["stability"], got["meta_control"])
    ELSE RuntimeStateRecord(got["spec_version"], got["schema_version"], got["timestamp"],
                            got["functions"], got["stability_score"], got["risk_score"],
                            got["mode"], got["risk_level"])

\* The words of serde's errors: what was found and what was expected.
Unexpected(val) ==
    CASE val.t = "string" -> "string"
      [] val.t = "bool" -> "boolean"
      [] val.t = "null" -> "null"
      [] val.t = "object" -> "map"
      [] OTHER -> "sequence"
Expected(ty) ==
    CASE ty \in {"String", "String (characters)"} -> "a string"
      [] ty = "u64" -> "u64"
      [] ty = "f64" -> "f64"
      [] ty = "Functions" -> "struct Functions"
      [] OTHER -> "struct RuntimeStateRecord"
ExpectedElements(ty) ==
    IF ty = "Functions" THEN "struct Functions with 4 elements"
    ELSE "struct RuntimeStateRecord with 8 elements"
SyntaxError == Err(<<"syntax error">>)
NumberOutOfRange == Err(<<"number out of range">>)
InvalidType(val, ty) == Err(<<"invalid type: ", Unexpected(val), ", expected ", Expected(ty)>>)

\* serde_json's f64_from_parts as it is built without the feature
\* float_roundtrip: the digits as f64, then times or over POW10[|exponent|],
\* each step rounded; an exponent beyond the table takes 1e308 at a time.
RECURSIVE f64_from_parts_loop(_, _)
f64_from_parts_loop(f, exponent) ==
    LET in_table == exponent >= -308 /\ exponent <= 308
        multiplied(g) == IF is_infinite(g) THEN NumberOutOfRange ELSE Ok(g)
        divided(g) == IF in_table THEN Ok(g) ELSE f64_from_parts_loop(g, exponent + 308)
        scaled(pow) == IF exponent >= 0 THEN multiplied(f64_mul(f, pow))
                       ELSE divided(f64_div(f, pow))
    IN  IF ~in_table /\ IsZero(f) THEN Ok(f)
        ELSE IF ~in_table /\ exponent >= 0 THEN NumberOutOfRange
        ELSE scaled(POW10(IF ~in_table THEN 308
                          ELSE IF exponent >= 0 THEN exponent ELSE 0 - exponent))

\* f64_from_parts as it is built with the feature float_roundtrip: the f64
\* nearest to the literal.
f64_from_parts_roundtrip(significand, exponent) ==
    LET finite(f) == IF is_infinite(f) THEN NumberOutOfRange ELSE Ok(f)
    IN  finite(nearest_f64(significand, exponent))

f64_from_parts(positive, significand, exponent, float_roundtrip) ==
    LET signed(f) == IF ~f.ok \/ positive THEN f ELSE Ok(f64_neg(f.v))
    IN  signed(IF float_roundtrip THEN f64_from_parts_roundtrip(significand, exponent)
               ELSE f64_from_parts_loop(u64_to_f64(significand), exponent))

\* serde_json's ParserNumber: what a number literal is read as.  -0 is read
\* as the f64 -0.0.
ParserNumber(kind, n, x) == [kind |-> kind, n |-> n, x |-> x]
parse_any_number(val, float_roundtrip) ==
    IF val.t = "uint" THEN Ok(ParserNumber("U64", val.n, F0))
    ELSE IF val.t = "negint"
    THEN IF val.n = 0 THEN Ok(ParserNumber("F64", 0, FNeg0))
         ELSE Ok(ParserNumber("I64", val.n, F0))
    ELSE LET number(f) == IF f.ok THEN Ok(ParserNumber("F64", 0, f.v)) ELSE f
         IN  number(f64_from_parts(~val.x.neg, val.x.significand, val.x.exponent,
                                   float_roundtrip))

\* A number handed to the visitor of the type that is expected.
visit_number(ty, num) ==
    CASE ty = "u64" ->
           IF num.kind = "U64" THEN Ok(num.n)
           ELSE IF num.kind = "I64"
           THEN Err(<<"invalid value: ", "integer", ", expected ", Expected(ty)>>)
           ELSE Err(<<"invalid type: ", "floating point", ", expected ", Expected(ty)>>)
      [] ty = "f64" ->
           IF num.kind = "F64" THEN Ok(num.x) ELSE Ok(int_to_f64(num.n))
      [] OTHER ->
           Err(<<"invalid type: ", IF num.kind = "F64" THEN "floating point" ELSE "integer",
                 ", expected ", Expected(ty)>>)

\* Does the value hold a place that is not JSON?
RECURSIVE HasInvalid(_)
HasInvalid(val) ==
    CASE val.t = "invalid" -> TRUE
      [] val.t = "object" -> \E i \in 1..Len(val.m) : HasInvalid(val.m[i][2])
      [] val.t = "array" -> val.end # "]" \/ \E i \in 1..Len(val.a) : HasInvalid(val.a[i])
      [] OTHER -> FALSE

\* The deserializer reads the text from left to right and returns the first
\* error it meets.  deny is the deny_unknown_fields attribute of the structs,
\* float_roundtrip the feature serde_json is built with.
\* visit_map: a key that is no field is an error (or, without the
\* attribute, skipped with its value); a field met twice is an error before
\* its value is read; a missing field is reported at the closing brace, the
\* first in the order of declaration.  visit_seq: the values in the order of
\* declaration.  Where a field is due and the items are used up, a closed
\* array is too short (invalid length) and any other end is a syntax error
\* (trailing comma, EOF while parsing a list, expected `,` or `]`).  After
\* the last field serde_json's end_seq wants the closing bracket: a comma
\* and then the bracket is a syntax error (trailing comma), a comma and then
\* anything else is trailing characters, the end of the text is a syntax
\* error (EOF while parsing a list), and another character is trailing
\* characters.
RECURSIVE deserialize(_, _, _, _)
RECURSIVE visit_map(_, _, _, _, _, _)
RECURSIVE visit_seq(_, _, _, _, _, _, _)
deserialize(ty, val, deny, float_roundtrip) ==
    IF val.t = "invalid" THEN SyntaxError
    ELSE IF val.t \in {"uint", "negint", "float"}
    THEN LET visit(num) == IF ~num.ok THEN num ELSE visit_number(ty, num.v)
         IN  visit(parse_any_number(val, float_roundtrip))
    ELSE CASE ty = "String" ->
                IF val.t = "string" THEN Ok(val.s) ELSE InvalidType(val, ty)
           [] ty = "String (characters)" ->
                IF val.t = "string" THEN Ok(val.cs) ELSE InvalidType(val, ty)
           [] ty \in {"u64", "f64"} -> InvalidType(val, ty)
           [] OTHER ->
                IF val.t = "object" THEN visit_map(ty, val.m, 1, <<>>, deny, float_roundtrip)
                ELSE IF val.t = "array" THEN visit_seq(ty, val.a, val.end, 1, <<>>, deny,
                                                                float_roundtrip)
                ELSE InvalidType(val, ty)

visit_map(ty, members, i, got, deny, float_roundtrip) ==
    LET fields == StructFields(ty)
        names == {fields[j] : j \in 1..Len(fields)}
        missing == {j \in 1..Len(fields) : fields[j] \notin DOMAIN got}
    IN  IF i > Len(members)
        THEN IF missing # {}
             THEN Err(<<"missing field ", fields[CHOOSE j \in missing : \A l \in missing : j <= l]>>)
             ELSE Ok(Build(ty, got))
        ELSE LET key == members[i][1]
                 val == members[i][2]
             IN  IF key \notin names
                 THEN IF deny THEN Err(<<"unknown field ", key>>)
                      ELSE IF HasInvalid(val) THEN SyntaxError
                      ELSE visit_map(ty, members, i + 1, got, deny, float_roundtrip)
                 ELSE IF key \in DOMAIN got THEN Err(<<"duplicate field ", key>>)
                 ELSE LET d == deserialize(FieldType(ty, key), val, deny, float_roundtrip)
                      IN  IF ~d.ok THEN d
                          ELSE visit_map(ty, members, i + 1, got @@ (key :> d.v), deny,
                                         float_roundtrip)

visit_seq(ty, items, end, i, got, deny, float_roundtrip) ==
    LET fields == StructFields(ty)
    IN  IF i > Len(fields)
        THEN IF i <= Len(items) THEN Err(<<"trailing characters">>)
             ELSE IF end = "]" THEN Ok(Build(ty, got))
             ELSE IF end = "@" THEN Err(<<"trailing characters">>)
             ELSE SyntaxError
        ELSE IF i > Len(items)
        THEN IF end = "]"
             THEN Err(<<"invalid length ", i - 1, ", expected ", ExpectedElements(ty)>>)
             ELSE SyntaxError
        ELSE LET d == deserialize(FieldType(ty, fields[i]), items[i], deny, float_roundtrip)
             IN  IF ~d.ok THEN d
                 ELSE visit_seq(ty, items, end, i + 1, got @@ (fields[i] :> d.v), deny,
                                float_roundtrip)

\* serde_json::from_str::<RuntimeStateRecord>: the value, then the end of
\* the text.
from_str_with(text, deny, float_roundtrip) ==
    LET end(d) == IF d.ok /\ text.trailing THEN Err(<<"trailing characters">>) ELSE d
    IN  end(deserialize("RuntimeStateRecord", text.value, deny, float_roundtrip))

\* from_str as serde derives it without deny_unknown_fields: a key that is
\* not a field is skipped.
from_str_skip_unknown(text, float_roundtrip) == from_str_with(text, FALSE, float_roundtrip)

from_str(text, float_roundtrip) == from_str_with(text, TRUE, float_roundtrip)

(***************************************************************************)
(* main.rs, the validate command.  What arrives on stdin is unreadable     *)
(* (not UTF-8) or a text; float_roundtrip is the feature of serde_json the *)
(* program is built with.                                                  *)
(***************************************************************************)
RECURSIVE print_results(_, _)
print_results(results, i) ==
    IF i > Len(results) THEN <<>>
    ELSE << <<IF results[i].passed THEN "PASS" ELSE "FAIL",
              results[i].id, results[i].detail>> >>
         \o print_results(results, i + 1)

\* main_validate without the failing exit after a violation.
main_validate_exit0(stdin, float_roundtrip) ==
    IF ~stdin.readable
    THEN [stdout |-> <<>>, stderr |-> << <<"Error reading stdin: ">> >>, exit |-> 1]
    ELSE LET report(decoded) ==
                 IF ~decoded.ok
             THEN [stdout |-> <<>>,
                   stderr |-> << <<"JSON parse error: ">> \o decoded.e,
                                 <<"The input must be a valid P-MATRIX runtime state record.">> >>,
                   exit |-> 1]
             ELSE LET results == validate_record(decoded.v)
                      all_passed == \A i \in 1..Len(results) : results[i].passed
                  IN  [stdout |-> print_results(results, 1) \o
                           << <<>>, IF all_passed THEN <<"Result: ALL INVARIANTS SATISFIED">>
                                    ELSE <<"Result: INVARIANT VIOLATION(S) DETECTED">> >>,
                       stderr |-> <<>>, exit |-> 0]
         IN  report(from_str(stdin.text, float_roundtrip))

main_validate(stdin, float_roundtrip) ==
    IF ~stdin.readable
    THEN [stdout |-> <<>>, stderr |-> << <<"Error reading stdin: ">> >>, exit |-> 1]
    ELSE LET report(decoded) ==
                 IF ~decoded.ok
             THEN [stdout |-> <<>>,
                   stderr |-> << <<"JSON parse error: ">> \o decoded.e,
                                 <<"The input must be a valid P-MATRIX runtime state record.">> >>,
                   exit |-> 1]
             ELSE LET results == validate_record(decoded.v)
                      all_passed == \A i \in 1..Len(results) : results[i].passed
                  IN  IF all_passed
                      THEN [stdout |-> print_results(results, 1) \o
                                << <<>>, <<"Result: ALL INVARIANTS SATISFIED">> >>,
                            stderr |-> <<>>, exit |-> 0]
                      ELSE [stdout |-> print_results(results, 1) \o
                                << <<>>, <<"Result: INVARIANT VIOLATION(S) DETECTED">> >>,
                            stderr |-> <<>>, exit |-> 1]
         IN  report(from_str(stdin.text, float_roundtrip))

(***************************************************************************)
(* Bounds and the inputs the calls are made with.                          *)
(***************************************************************************)
MaxTs == 2
MaxStream == 4

TsVals == 0..MaxTs \cup {1000, 1001, 1707500000}
ModeVals == {MODES[i] : i \in 1..5} \cup {"", "Unknown", "optimal"}
LevelVals == {RISK_LEVELS[i] : i \in 1..5} \cup {"", "L0"}
SpecVals == {SPEC_VERSION, "pmatrix-4.0", ""}
SchemaVals ==
    { <<"1", ".", "0", ".", "0">>,
      <<>>,
      <<"1", ".", "0">>,
      <<"1", ".", "0", ".", "0", ".", "0">>,
      <<"1", ".", ".", "0">>,
      <<"0", ".", "1", "2", ".", "3", "4", "5">>,
      <<"+", "1", ".", "0", ".", "0">>,
      <<"-", "1", ".", "0", ".", "0">>,
      <<"1", ".", "0", ".", "x">>,
      <<"4", "2", "9", "4", "9", "6", "7", "2", "9", "5", ".", "0", ".", "0">>,
      <<"4", "2", "9", "4", "9", "6", "7", "2", "9", "6", ".", "0", ".", "0">>,
      <<"0", "0", "7", ".", "0", ".", "0">> }
FnVals == {NaN, PInf, FNeg0_1, FNeg0, F0, F0_25, F1, F1_5}
FnSmall == {NaN, F0, F1, F1_5}
StabVals == {NaN, FNeg0_1, F0, F0_58, F1, F1_001}
RiskVals ==
    {NaN, NInf, PInf, FNeg0_1, FNeg0, F0, F0_19999999, F0_2_pred, F0_2, F0_35,
     F0_4_pred, F0_4, F0_42, F0_5, F0_6_pred, F0_6, F0_6375, F0_8_pred, F0_8,
     F1_pred, F1, F1_succ, F1_001, F1_5}
EmitTs == {0, 1000, 1707500000}
\* Readings of the system clock: before the epoch, at it, and past it.
ClockVals == {-5, 0, 1707500001}
EmitVals ==
    {NaN, PInf, NInf, FNeg0_1, F1_5, FNeg0, F0, F0_2, F0_25, F0_3, F0_7, F0_8, F1}

\* tests/conformance_tests.rs make_record
make_record(baseline, norm, stability, meta_control, stability_score, risk_score, mode, risk_level, timestamp) ==
    RuntimeStateRecord(SPEC_VERSION, SCHEMA_VERSION, timestamp,
                       Functions(baseline, norm, stability, meta_control),
                       stability_score, risk_score, mode, risk_level)

\* The example record of the conformance tests, and one record per mode.
ExampleRecord ==
    make_record(F0_25, F0_7, F0_3, F0_2, F0_58, F0_42, "Caution", "L3", 1707500000)
BaseRecords ==
    { ExampleRecord,
      make_record(F1, F1, F1, F1, F1, F0, "Optimal", "L1", 1000),
      make_record(F0_5, F0_5, F0_5, F0_5, F0_8, F0_2, "Normal", "L2", 1000),
      make_record(F0_25, F0_7, F0_3, F0_2, F0_3625, F0_6375, "Alert", "L4", 1707500000),
      make_record(F0, F0, F0, F0, F0, F1, "Halt", "L5", 1000) }

\* Records that vary the fields one family of checks reads, and records that
\* vary every field between a passing and a failing value.
ConsistencySlice ==
    { [ExampleRecord EXCEPT !.risk_score = x, !.mode = m, !.risk_level = l] :
        x \in RiskVals, m \in ModeVals, l \in LevelVals }
RangeSlice ==
    { [ExampleRecord EXCEPT !.functions = Functions(b, n, s, c),
                            !.stability_score = st, !.timestamp = t] :
        b \in FnSmall, n \in FnSmall, s \in FnSmall, c \in FnSmall,
        st \in StabVals, t \in {0, 1, 1707500000} }
StructuralSlice ==
    { [ExampleRecord EXCEPT !.spec_version = sp, !.schema_version = sc,
                            !.mode = m, !.risk_level = l] :
        sp \in SpecVals, sc \in SchemaVals, m \in ModeVals, l \in LevelVals }
CrossSlice ==
    { RuntimeStateRecord(sp, sc, t, Functions(b, F0_7, F0_3, c), st, x, m, l) :
        sp \in {SPEC_VERSION, ""}, sc \in {SCHEMA_VERSION, <<"1", ".", "0">>},
        t \in {0, 1000}, b \in {F0_25, FNeg0_1}, c \in {F0_2, NaN},
        st \in {F0_58, F1_5}, x \in {F0_42, F0_35, NaN},
        m \in {"Caution", "Normal", ""}, l \in {"L3", "L4", ""} }
Records == BaseRecords \cup ConsistencySlice \cup RangeSlice \cup StructuralSlice \cup CrossSlice

\* One field of a record set to one value.
Edits ==
    {<<"spec_version", v>> : v \in SpecVals}
    \cup {<<"schema_version", v>> : v \in SchemaVals}
    \cup {<<"timestamp", v>> : v \in TsVals}
    \cup {<<f, v>> : f \in FunctionsFields, v \in FnVals}
    \cup {<<"stability_score", v>> : v \in StabVals}
    \cup {<<"risk_score", v>> : v \in RiskVals}
    \cup {<<"mode", v>> : v \in ModeVals}
    \cup {<<"risk_level", v>> : v \in LevelVals}

ApplyEdit(r, e) ==
    IF e[1] \in FunctionsFields
    THEN [r EXCEPT !.functions = [r.functions EXCEPT ![e[1]] = e[2]]]
    ELSE [r EXCEPT ![e[1]] = e[2]]

\* Other function values and other stability scores, all inside [0,1], for a
\* record that is otherwise kept (tests/conformance_tests.rs make_record with
\* zeros, with ones).
FunctionsAlts ==
    { Functions(F0, F0, F0, F0), Functions(F1, F1, F1, F1),
      Functions(FNeg0, F1, F0_25, F0_7) }
StabAlts == {F0, F0_3625, F0_58, F1}
VaryEdits ==
    {<<"functions", f>> : f \in FunctionsAlts}
    \cup {<<"stability_score", v>> : v \in StabAlts}
FunctionsInUnit(f) ==
    /\ in_range(f.baseline) /\ in_range(f.norm)
    /\ in_range(f.stability) /\ in_range(f.meta_control)

\* Streams: records that differ in their timestamps.
RECURSIVE SeqsUpTo(_, _)
SeqsUpTo(S, n) ==
    IF n = 0 THEN {<<>>}
    ELSE LET shorter == SeqsUpTo(S, n - 1)
         IN  shorter \cup {Append(q, x) : q \in {p \in shorter : Len(p) = n - 1}, x \in S}
StreamTs == 0..MaxTs
Streams ==
    { [i \in 1..Len(ts) |-> [ExampleRecord EXCEPT !.timestamp = ts[i]]] :
        ts \in SeqsUpTo(StreamTs, MaxStream) \cup {<<1000, 1000, 1001>>, <<1001, 1000>>} }

\* A literal with a fraction or an exponent and fewer than ten digits:
\* Lit(58, -2) is 0.58, Lit(1, 999) is 1e999.
Lit(digits, exponent) == JFloat(FALSE, <<0, digits>>, exponent)

\* The text of a record: the eight members in the order of the struct.
FunctionsJson(baseline, norm, stability, meta_control) ==
    JObject(<< <<"baseline", baseline>>, <<"norm", norm>>,
               <<"stability", stability>>, <<"meta_control", meta_control>> >>)
RecordJson(spec_version, schema_version, timestamp, functions, stability_score, risk_score, mode, risk_level) ==
    JObject(<< <<"spec_version", spec_version>>,
               <<"schema_version", schema_version>>,
               <<"timestamp", timestamp>>,
               <<"functions", functions>>,
               <<"stability_score", stability_score>>,
               <<"risk_score", risk_score>>,
               <<"mode", mode>>,
               <<"risk_level", risk_level>> >>)

\* tests/conformance_tests.rs test_json_reject_extra_fields, without its
\* extra member; and one text per mode.
ExampleFunctionsJson == FunctionsJson(Lit(25, -2), Lit(70, -2), Lit(30, -2), Lit(20, -2))
ExampleJson ==
    RecordJson(JString(SPEC_VERSION), JChars(SCHEMA_VERSION), JUInt(1707500000),
               ExampleFunctionsJson, Lit(58, -2), Lit(42, -2),
               JString("Caution"), JString("L3"))
BaseJsons ==
    { ExampleJson,
      RecordJson(JString(SPEC_VERSION), JChars(SCHEMA_VERSION), JUInt(1000),
                 FunctionsJson(Lit(10, -1), Lit(10, -1), Lit(10, -1), Lit(10, -1)),
                 Lit(10, -1), Lit(0, -1), JString("Optimal"), JString("L1")),
      RecordJson(JString(SPEC_VERSION), JChars(SCHEMA_VERSION), JUInt(1000),
                 FunctionsJson(Lit(5, -1), Lit(5, -1), Lit(5, -1), Lit(5, -1)),
                 Lit(8, -1), Lit(2, -1), JString("Normal"), JString("L2")),
      RecordJson(JString(SPEC_VERSION), JChars(SCHEMA_VERSION), JUInt(1707500000),
                 ExampleFunctionsJson, Lit(3625, -4), Lit(6375, -4),
                 JString("Alert"), JString("L4")),
      RecordJson(JString(SPEC_VERSION), JChars(SCHEMA_VERSION), JUInt(1000),
                 FunctionsJson(JUInt(0), JUInt(0), JUInt(0), JUInt(0)),
                 JUInt(0), JUInt(1), JString("Halt"), JString("L5")) }

\* Number literals for risk_score: the band edges 0.2, 0.4, 0.6, 0.8 and 1.0,
\* the literal that is written for the f64 next below each of them, other
\* spellings, and values outside [0,1] or outside f64.
RiskJsons ==
    { Lit(0, -1), JFloat(TRUE, <<0, 0>>, -1), JNegInt(0), JUInt(0), JUInt(1),
      JUInt(2), JNegInt(-1), JNull,
      Lit(2, -1), Lit(4, -1), Lit(6, -1), Lit(8, -1), Lit(10, -1),
      JFloat(FALSE, <<19999999, 999999998>>, -17),
      JFloat(FALSE, <<39999999, 999999997>>, -17),
      JFloat(FALSE, <<5999999, 999999999>>, -16),
      JFloat(FALSE, <<7999999, 999999999>>, -16),
      JFloat(FALSE, <<9999999, 999999999>>, -16),
      JFloat(FALSE, <<10000000, 2>>, -16),
      JFloat(FALSE, <<199999999, 999999983>>, -18),
      Lit(19999999, -8), Lit(35, -2), Lit(42, -2), Lit(6375, -4), Lit(15, -1),
      JFloat(TRUE, <<0, 1>>, -1), Lit(1, 999), Lit(1, -400) }
FnJsons == {Lit(0, -1), Lit(10, -1), Lit(15, -1)}
StabJsons == {Lit(58, -2), Lit(1001, -3), JFloat(TRUE, <<0, 1>>, -1), JNull}

\* Texts that vary the fields one family of checks reads, and texts that
\* vary several fields between a passing and a failing value.
ConsistencyJsons ==
    { RecordJson(JString(SPEC_VERSION), JChars(SCHEMA_VERSION), JUInt(1707500000),
                 ExampleFunctionsJson, Lit(58, -2), x, JString(m), JString(l)) :
        x \in RiskJsons, m \in ModeVals, l \in LevelVals }
RangeJsons ==
    { RecordJson(JString(SPEC_VERSION), JChars(SCHEMA_VERSION), JUInt(t),
                 FunctionsJson(b, n, s, c), st, Lit(42, -2),
                 JString("Caution"), JString("L3")) :
        b \in FnJsons, n \in FnJsons, s \in FnJsons, c \in FnJsons,
        st \in StabJsons, t \in {0, 1, 1707500000} }
StructuralJsons ==
    { RecordJson(JString(sp), JChars(sc), JUInt(1707500000), ExampleFunctionsJson,
                 Lit(58, -2), Lit(42, -2), JString(m), JString(l)) :
        sp \in SpecVals, sc \in SchemaVals,
        m \in {"Caution", "Unknown", ""}, l \in {"L3", ""} }
CrossJsons ==
    { RecordJson(JString(sp), JChars(SCHEMA_VERSION), JUInt(t), ExampleFunctionsJson,
                 st, x, JString(m), JString(l)) :
        sp \in {SPEC_VERSION, ""}, t \in {0, 1000},
        st \in {Lit(58, -2), Lit(15, -1)}, x \in {Lit(42, -2), Lit(35, -2)},
        m \in {"Caution", "Normal"}, l \in {"L2", "L3", ""} }
RecordJsons ==
    BaseJsons \cup ConsistencyJsons \cup RangeJsons \cup StructuralJsons \cup CrossJsons

\* Changes to the text of a record: a member put first or last, a member
\* removed, the value of a member replaced, the object written as the array
\* of its values (all of them, all but the last, or one more, be it a value
\* or no JSON at all), closed or ending in another way; the same inside the
\* value of "functions"; characters after the value.
InsertFirst(o, m) == JObject(<<m>> \o o.m)
InsertLast(o, m) == JObject(Append(o.m, m))
RemoveMember(o, key) == JObject(SelectSeq(o.m, LAMBDA m : m[1] # key))
SetMember(o, key, val) ==
    JObject([i \in 1..Len(o.m) |-> IF o.m[i][1] = key THEN <<key, val>> ELSE o.m[i]])
AsArray(o) == JArray([i \in 1..Len(o.m) |-> o.m[i][2]], "]")

ObjectEdit(val, e) ==
    IF val.t # "object" THEN val
    ELSE CASE e[1] = "first" -> InsertFirst(val, e[2])
           [] e[1] = "last" -> InsertLast(val, e[2])
           [] e[1] = "remove" -> RemoveMember(val, e[2])
           [] e[1] = "set" -> SetMember(val, e[2], e[3])
           [] e[1] = "array" -> AsArray(val)
           [] e[1] = "array_cut" -> JArray(SubSeq(AsArray(val).a, 1, Len(val.m) - 1), e[2])
           [] e[1] = "array_more" -> JArray(Append(AsArray(val).a, e[2]), "]")
           [] e[1] = "array_end" -> JArray(AsArray(val).a, e[2])
           [] OTHER -> val

TextEdit(text, e) ==
    IF e[1] = "trailing" THEN Text(text.value, TRUE)
    ELSE IF e[1] = "functions"
    THEN IF text.value.t # "object" THEN text
         ELSE Text(JObject([i \in 1..Len(text.value.m) |->
                              IF text.value.m[i][1] = "functions"
                              THEN <<"functions", ObjectEdit(text.value.m[i][2], e[2])>>
                              ELSE text.value.m[i]]),
                   text.trailing)
    ELSE Text(ObjectEdit(text.value, e), text.trailing)

RecordEdits ==
    { <<"first", <<"extra_field", JString("should_fail")>>>>,
      <<"last", <<"extra_field", JString("should_fail")>>>>,
      <<"last", <<"timestamp", JUInt(1707500000)>>>>,
      <<"remove", "spec_version">>, <<"remove", "timestamp">>, <<"remove", "risk_level">>,
      <<"set", "mode", JUInt(3)>>,
      <<"set", "schema_version", JBool(TRUE)>>,
      <<"set", "schema_version", JChars(<<>>)>>,
      <<"set", "timestamp", JString("1707500000")>>,
      <<"set", "timestamp", JNegInt(-1)>>,
      <<"set", "timestamp", Lit(15, -1)>>,
      <<"set", "stability_score", JNull>>,
      <<"set", "risk_score", JUInt(1)>>,
      <<"set", "risk_score", Lit(1, 999)>>,
      <<"set", "functions", JUInt(0)>>,
      <<"set", "risk_level", JInvalid>>,
      <<"set", "timestamp", JNegInt(0)>>,
      <<"set", "mode", JNegInt(0)>>,
      <<"array">>, <<"array_cut", "]">>, <<"array_cut", ",]">>, <<"array_cut", "">>,
      <<"array_more", JUInt(0)>>, <<"array_more", JInvalid>>,
      <<"array_end", ",]">>, <<"array_end", "">>, <<"array_end", "@">> }
FunctionsEdits ==
    { <<"first", <<"extra", Lit(5, -1)>>>>,
      <<"last", <<"extra", Lit(5, -1)>>>>,
      <<"last", <<"baseline", Lit(5, -1)>>>>,
      <<"remove", "norm">>,
      <<"set", "stability", JString("0.3")>>,
      <<"set", "norm", JNegInt(-1)>>,
      <<"set", "baseline", JUInt(1)>>,
      <<"set", "meta_control", JNegInt(0)>>,
      <<"array">>, <<"array_cut", "]">>, <<"array_cut", ",]">>, <<"array_cut", "">>,
      <<"array_more", JUInt(0)>>, <<"array_more", JInvalid>>,
      <<"array_end", ",]">>, <<"array_end", "">>, <<"array_end", "@">> }
TextEdits ==
    RecordEdits \cup {<<"functions", e>> : e \in FunctionsEdits}
    \cup {<<"trailing">>, <<"none">>}

\* What the validate command may find on stdin: bytes that are not a text;
\* a text that is not JSON; a JSON value that is no object; the text of a
\* record; such a text with one or two changes.
Stdins ==
    { [readable |-> FALSE, text |-> Text(JInvalid, FALSE)] }
    \cup { [readable |-> TRUE, text |-> Text(v, FALSE)] :
             v \in {JInvalid, JUInt(42), JNull, JString(SPEC_VERSION), JObject(<<>>),
                    JArray(<<>>, "]"), JArray(<<>>, ""), JArray(<<>>, ",]"),
                    JArray(<<JUInt(1), JUInt(2), JInvalid>>, "]"),
                    JArray(<<JString(SPEC_VERSION), JChars(SCHEMA_VERSION)>>, "@")} }
    \cup { [readable |-> TRUE, text |-> Text(v, FALSE)] : v \in RecordJsons }
    \cup { [readable |-> TRUE, text |-> TextEdit(TextEdit(Text(ExampleJson, FALSE), e1), e2)] :
             e1 \in TextEdits, e2 \in TextEdits }
    \cup { [readable |-> TRUE, text |-> TextEdit(Text(v, FALSE), e)] :
             v \in BaseJsons, e \in TextEdits }

(***************************************************************************)
(* The state: the call in progress, its argument and what it returned.     *)
(* Every operation is a pure function of its arguments; a step makes one   *)
(* call from the idle state or returns to it.                              *)
(***************************************************************************)
VARIABLES op, arg, ret, prev

vars == <<op, arg, ret, prev>>

Init == op = "idle" /\ arg = <<>> /\ ret = <<>> /\ prev = <<>>

PartitionMap ==
    /\ op = "idle"
    /\ \E x \in RiskVals :
         /\ op' = "demo_partition_map"
         /\ arg' = x
         /\ ret' = demo_partition_map(x)
    /\ UNCHANGED prev

ModeToRiskLevel ==
    /\ op = "idle"
    /\ \E m \in ModeVals \cup LevelVals :
         /\ op' = "mode_to_risk_level"
         /\ arg' = m
         /\ ret' = mode_to_risk_level(m)
    /\ UNCHANGED prev

\* validate_record and is_record_valid on one record.
Validate ==
    /\ op = "idle"
    /\ \E r \in Records :
         /\ op' = "validate"
         /\ arg' = r
         /\ ret' = [results |-> validate_record(r), valid |-> is_record_valid(r)]
    /\ UNCHANGED prev

\* A conforming record with one field set to another value, validated again
\* (tests/conformance_tests.rs: record.spec_version = ...; validate_all(&record)).
Perturb ==
    /\ op = "validate"
    /\ ret.valid
    /\ \E e \in Edits :
         LET r == ApplyEdit(arg, e)
         IN  /\ op' = "perturb"
             /\ prev' = [record |-> arg, results |-> ret.results, edit |-> e]
             /\ arg' = r
             /\ ret' = [results |-> validate_record(r), valid |-> is_record_valid(r)]

\* A record whose function values (or whose stability_score) lie in [0,1],
\* validated, and then the record that differs from it in those values only.
Vary ==
    /\ op = "validate"
    /\ \E e \in VaryEdits :
         LET r == [arg EXCEPT ![e[1]] = e[2]]
         IN  /\ r # arg
             /\ e[1] = "functions" => FunctionsInUnit(arg.functions)
             /\ e[1] = "stability_score" => in_range(arg.stability_score)
             /\ op' = "vary"
             /\ prev' = [record |-> arg, results |-> ret.results, edit |-> e]
             /\ arg' = r
             /\ ret' = [results |-> validate_record(r), valid |-> is_record_valid(r)]

ValidateStream ==
    /\ op = "idle"
    /\ \E records \in Streams :
         /\ op' = "validate_stream_t1"
         /\ arg' = records
         /\ ret' = validate_stream_t1(records)
    /\ UNCHANGED prev

Emit ==
    /\ op = "idle"
    /\ \E b \in EmitVals, n \in EmitVals, s \in EmitVals, m \in EmitVals,
          t \in {None} \cup {Some(v) : v \in EmitTs},
          clock \in ClockVals :
         \* the clock is read only when no timestamp is supplied
         /\ t.some => clock = 1707500001
         /\ op' = "emit_demo_record"
         /\ arg' = [baseline |-> b, norm |-> n, stability |-> s, meta_control |-> m,
                    timestamp |-> t, clock |-> clock]
         /\ ret' = emit_demo_record(b, n, s, m, t, clock)
    /\ UNCHANGED prev

\* An emitted record handed to the validator
\* (tests/conformance_tests.rs test_emit_demo_record_valid).
ValidateEmitted ==
    /\ op = "emit_demo_record"
    /\ ret.ok
    /\ op' = "validate_emitted"
    /\ prev' = arg
    /\ arg' = ret.v
    /\ ret' = [results |-> validate_record(ret.v), valid |-> is_record_valid(ret.v)]

\* The validate command on one input, in a build of the program with or
\* without serde_json's feature float_roundtrip.
CliValidate ==
    /\ op = "idle"
    /\ \E stdin \in Stdins, float_roundtrip \in BOOLEAN :
         /\ op' = "main_validate"
         /\ arg' = [readable |-> stdin.readable, text |-> stdin.text,
                    float_roundtrip |-> float_roundtrip]
         /\ ret' = main_validate(stdin, float_roundtrip)
    /\ UNCHANGED prev

Return ==
    /\ op # "idle"
    /\ op' = "idle" /\ arg' = <<>> /\ ret' = <<>> /\ prev' = <<>>

Next ==
    \/ PartitionMap
    \/ ModeToRiskLevel
    \/ Validate
    \/ Perturb
    \/ Vary
    \/ ValidateStream
    \/ Emit
    \/ ValidateEmitted
    \/ CliValidate
    \/ Return

Spec == Init /\ [][Next]_vars

(***************************************************************************)
(* Properties.                                                             *)
(***************************************************************************)
Validated == op \in {"validate", "perturb", "vary", "validate_emitted"}

InvIds ==
    <<"INV-R1", "INV-R2", "INV-R3", "INV-R4", "INV-C1", "INV-C2", "INV-C3",
      "INV-S1", "INV-S2", "INV-S3", "INV-S4", "INV-T1">>

\* The identifiers of the results that did not pass.
Failing(results) == {results[i].id : i \in {j \in 1..Len(results) : ~results[j].passed}}

\* v is below 0, above 1 or not a number.
OutsideUnit(v) == is_nan(v) \/ f64_lt(v, F0) \/ f64_gt(v, F1)

\* Band i of the partition: lower bound included, upper bound excluded,
\* except the last band, which includes 1.0.
Thresholds == <<F0, F0_2, F0_4, F0_6, F0_8, F1>>
InBand(x, i) ==
    /\ f64_le(Thresholds[i], x)
    /\ IF i < 5 THEN f64_lt(x, Thresholds[i + 1]) ELSE f64_le(x, Thresholds[6])

\* C1: demo_partition_map returns, for a risk_score in [0,1], the one mode
\* whose band [0,0.2), [0.2,0.4), [0.4,0.6), [0.6,0.8), [0.8,1.0] holds it,
\* and no mode for a risk_score below 0, above 1 or not a number.
C1_PartitionBands ==
    op = "demo_partition_map" =>
        IF OutsideUnit(arg)
        THEN ~ret.some
        ELSE /\ ret.some
             /\ \A i \in 1..5 : (ret.v = MODES[i]) <=> InBand(arg, i)
             /\ Cardinality({i \in 1..5 : ret.v = MODES[i]}) = 1

C1_Witness ==
    op = "demo_partition_map" /\ arg = F0_8 /\ ret.some /\ ret.v = "Halt"

\* C2: mode_to_risk_level maps the five modes one-to-one onto the five levels,
\* in the order Optimal..Halt to L1..L5, and returns no level for any other
\* string.
C2_ModeLevelBijection ==
    /\ \A i, j \in 1..5 : i # j => MODES[i] # MODES[j] /\ RISK_LEVELS[i] # RISK_LEVELS[j]
    /\ op = "mode_to_risk_level" =>
           /\ \A i \in 1..5 : arg = MODES[i] => ret.some /\ ret.v = RISK_LEVELS[i]
           /\ ret.some => \E i \in 1..5 : arg = MODES[i] /\ ret.v = RISK_LEVELS[i]
           /\ (\A i \in 1..5 : arg # MODES[i]) => ~ret.some

C2_Witness ==
    op = "mode_to_risk_level" /\ arg = "Halt" /\ ret.some /\ ret.v = "L5"

\* C3: validate_all returns twelve results, in the order INV-R1, R2, R3, R4,
\* C1, C2, C3, S1, S2, S3, S4, T1, with distinct identifiers, whatever fails.
C3_TwelveResults ==
    /\ \A i, j \in 1..12 : i # j => InvIds[i] # InvIds[j]
    /\ Validated =>
           /\ Len(ret.results) = 12
           /\ \A i \in 1..12 : ret.results[i].id = InvIds[i]

\* A record on which the first check and later ones fail at once.
C3_Witness ==
    /\ op = "validate"
    /\ Len(ret.results) = 12
    /\ {"INV-R1", "INV-R4", "INV-C1", "INV-S1", "INV-S4"} \subseteq Failing(ret.results)

\* C4: is_valid and is_record_valid are true exactly when each of the twelve
\* results of validate_all has passed.
C4_ValidIffAllPass ==
    Validated =>
        (ret.valid <=>
            \A k \in 1..12 :
                \E i \in 1..Len(ret.results) :
                    ret.results[i].id = InvIds[k] /\ ret.results[i].passed)

\* A record that fails its last fallible check only is not valid.
C4_Witness ==
    op = "validate" /\ ~ret.valid /\ Failing(ret.results) = {"INV-S4"}

\* C5: a conforming record with one field changed fails exactly the checks
\* that read the change: timestamp 0 fails INV-R4 alone, one function value
\* outside [0,1] fails INV-R1 alone, another canonical mode fails the
\* consistency checks INV-C1, INV-C2, INV-C3 and nothing else.
C5_Isolation ==
    op = "perturb" =>
        LET e == prev.edit
            failing == Failing(ret.results)
        IN  /\ Failing(prev.results) = {}
            /\ (e[1] = "timestamp" /\ e[2] = 0) => failing = {"INV-R4"}
            /\ (e[1] \in FunctionsFields /\ OutsideUnit(e[2])) => failing = {"INV-R1"}
            /\ (e[1] = "mode" /\ e[2] # prev.record.mode
                    /\ \E i \in 1..5 : e[2] = MODES[i])
                   => failing = {"INV-C1", "INV-C2", "INV-C3"}

C5_Witness ==
    /\ op = "perturb"
    /\ prev.edit[1] = "mode" /\ prev.edit[2] = "Halt" /\ prev.record.mode = "Caution"
    /\ Failing(ret.results) = {"INV-C1", "INV-C2", "INV-C3"}

\* C6: validate_stream_t1 returns the least index i >= 1 (from 0) whose
\* timestamp is below that of record i - 1, and none when there is no such
\* index: equal timestamps, the empty and the one-record stream give none.
C6_FirstDecrease ==
    op = "validate_stream_t1" =>
        LET n == Len(arg)
            drops == {i \in 1..(n - 1) : arg[i + 1].timestamp < arg[i].timestamp}
        IN  IF drops = {}
            THEN ~ret.some
            ELSE ret.some /\ ret.v \in drops /\ \A i \in drops : ret.v <= i

\* Two equal timestamps, then a decrease, then another.
C6_Witness ==
    /\ op = "validate_stream_t1"
    /\ Len(arg) = 4
    /\ arg[1].timestamp = arg[2].timestamp
    /\ arg[3].timestamp < arg[2].timestamp
    /\ arg[4].timestamp < arg[3].timestamp
    /\ ret.some /\ ret.v = 2

EmitFields == <<"baseline", "norm", "stability", "meta_control">>

\* The emitter rejects v: not a number, infinite, or outside [0,1].
Rejected(v) == is_nan(v) \/ is_infinite(v) \/ OutsideUnit(v)

\* The first of the four inputs, in the order they are passed, that is rejected.
FirstRejected(a) ==
    EmitFields[CHOOSE i \in 1..4 :
                   /\ Rejected(a[EmitFields[i]])
                   /\ \A j \in 1..(i - 1) : ~Rejected(a[EmitFields[j]])]

\* C7 as stated: with an input that is NaN, infinite or outside [0,1],
\* emit_demo_record returns an error and no record, and the error names the
\* offending field and its value.
C7_ErrorNamesFieldAndValue ==
    (op = "emit_demo_record" /\ \E i \in 1..4 : Rejected(arg[EmitFields[i]])) =>
        /\ ~ret.ok
        /\ \E i \in 1..4 :
               /\ Rejected(arg[EmitFields[i]])
               /\ ret.e[1] = EmitFields[i]
               /\ Len(ret.e) = 4
               /\ ret.e[3] = arg[EmitFields[i]]

\* C7 amended: with an input that is NaN, infinite or outside [0,1],
\* emit_demo_record returns an error and no record; the error names the first
\* offending field, with its value when the value is finite, and as
\* "is NaN or infinite", without the value, when it is NaN or an infinity.
C7_ErrorNamesField ==
    (op = "emit_demo_record" /\ \E i \in 1..4 : Rejected(arg[EmitFields[i]])) =>
        LET f == FirstRejected(arg)
        IN  /\ ~ret.ok
            /\ DOMAIN ret = {"ok", "e"}
            /\ ret.e[1] = f
            /\ IF is_nan(arg[f]) \/ is_infinite(arg[f])
               THEN Len(ret.e) = 2 /\ ret.e[2] = " is NaN or infinite"
               ELSE Len(ret.e) = 4 /\ ret.e[3] = arg[f]

\* norm = 1.5 with the other inputs valid: the error names norm and 1.5.
C7_Witness ==
    /\ op = "emit_demo_record"
    /\ arg.norm = F1_5 /\ ~Rejected(arg.baseline)
    /\ ~ret.ok /\ Len(ret.e) = 4 /\ ret.e[1] = "norm" /\ ret.e[3] = F1_5

RangeAndStructuralIds ==
    {"INV-R1", "INV-R2", "INV-R3", "INV-R4", "INV-S1", "INV-S2", "INV-S3", "INV-S4"}

\* C8: every record emit_demo_record returns, whatever the timestamp argument,
\* passes INV-R1..R4 and INV-S1..S4 of validate_all.
C8_EmittedPassesRangeAndStructure ==
    op = "validate_emitted" =>
        Failing(ret.results) \cap RangeAndStructuralIds = {}

\* The magnitude of x in units of 2^-58, for x zero or in [2^-5, 4): exact.
Mag(x) == IF IsZero(x) THEN <<0, 0>> ELSE Shl(<<x.hi, x.lo>>, x.e + 58)
WNear(a, b, units) == WLe(a, WAdd(b, <<0, units>>)) /\ WLe(b, WAdd(a, <<0, units>>))

\* 4 * st is the exact sum b + n + s + m up to the rounding of three f64
\* additions of values below 4 (three times 2^-52).
IsMeanOf(st, b, n, s, m) ==
    /\ st.k = "fin"
    /\ WNear(WAdd(WAdd(Mag(st), Mag(st)), WAdd(Mag(st), Mag(st))),
             WAdd(WAdd(Mag(b), Mag(n)), WAdd(Mag(s), Mag(m))), 192)

\* x + st is 1 up to the rounding of one f64 subtraction below 1 (2^-54).
IsComplementOf(x, st) ==
    /\ x.k = "fin" /\ ~x.neg
    /\ WNear(WAdd(Mag(x), Mag(st)), Mag(F1), 16)

\* C9: for four inputs in [0,1] the emitted record holds the inputs, their
\* mean as stability_score, 1 - stability_score as risk_score, the mode of
\* risk_score, the level of the mode, the two version constants and the
\* supplied timestamp, and so passes INV-C1, INV-C2, INV-C3;
\* (0.25, 0.70, 0.30, 0.20) gives 0.3625, 0.6375, Alert, L4, all zeros give
\* Halt, L5 and all ones give Optimal, L1.
C9_EmittedFields ==
    /\ (op = "emit_demo_record" /\ \A i \in 1..4 : ~OutsideUnit(arg[EmitFields[i]])) =>
           /\ ret.ok
           /\ LET r == ret.v
                  a == arg
              IN  /\ r.functions = Functions(a.baseline, a.norm, a.stability, a.meta_control)
                  /\ IsMeanOf(r.stability_score, a.baseline, a.norm, a.stability, a.meta_control)
                  /\ IsComplementOf(r.risk_score, r.stability_score)
                  /\ demo_partition_map(r.risk_score) = Some(r.mode)
                  /\ mode_to_risk_level(r.mode) = Some(r.risk_level)
                  /\ r.spec_version = SPEC_VERSION
                  /\ r.schema_version = SCHEMA_VERSION
                  /\ a.timestamp.some => r.timestamp = a.timestamp.v
                  /\ (a.baseline = F0_25 /\ a.norm = F0_7 /\ a.stability = F0_3
                          /\ a.meta_control = F0_2)
                         => /\ r.stability_score = F0_3625 /\ r.risk_score = F0_6375
                            /\ r.mode = "Alert" /\ r.risk_level = "L4"
                  /\ (\A i \in 1..4 : a[EmitFields[i]] = F0)
                         => r.mode = "Halt" /\ r.risk_level = "L5"
                  /\ (\A i \in 1..4 : a[EmitFields[i]] = F1)
                         => r.mode = "Optimal" /\ r.risk_level = "L1"
    /\ op = "validate_emitted" =>
           Failing(ret.results) \cap {"INV-C1", "INV-C2", "INV-C3"} = {}

\* The example call, emitted and validated.
C9_Witness ==
    /\ op = "validate_emitted"
    /\ prev.baseline = F0_25 /\ prev.norm = F0_7 /\ prev.stability = F0_3
    /\ prev.meta_control = F0_2 /\ prev.timestamp = Some(1707500000)
    /\ arg.stability_score = F0_3625 /\ arg.risk_score = F0_6375
    /\ arg.mode = "Alert" /\ arg.risk_level = "L4" /\ arg.timestamp = 1707500000
    /\ ret.valid

\* The input decodes: it is readable and from_str gives a record.
Decodes(stdin) == stdin.readable /\ from_str(stdin.text, stdin.float_roundtrip).ok

\* C10: the validate command exits 0 exactly when the input decodes and all
\* twelve results pass; when it decodes and a check fails it prints the twelve
\* result lines, then the verdict, and exits 1; when it does not decode it
\* exits 1 with a report on stderr and prints no result line.
C10_ValidateOutcomes ==
    op = "main_validate" =>
        \A decoded \in {from_str(arg.text, arg.float_roundtrip)} :
            /\ ret.exit \in {0, 1}
            /\ (arg.readable /\ decoded.ok) =>
                   \A results \in {validate_all(decoded.v)} :
                       /\ ret.exit = 0 <=> Failing(results) = {}
                       /\ Len(ret.stdout) = 14
                       /\ \A i \in 1..12 :
                              /\ ret.stdout[i][2] = InvIds[i]
                              /\ ret.stdout[i][1] =
                                     IF results[i].passed THEN "PASS" ELSE "FAIL"
                       /\ ret.stdout[13] = <<>>
                       /\ ret.stdout[14] =
                              IF Failing(results) = {}
                              THEN <<"Result: ALL INVARIANTS SATISFIED">>
                              ELSE <<"Result: INVARIANT VIOLATION(S) DETECTED">>
                       /\ ret.stderr = <<>>
            /\ ~(arg.readable /\ decoded.ok) =>
                   /\ ret.exit = 1
                   /\ ret.stdout = <<>>
                   /\ ret.stderr # <<>>

\* A document that decodes and fails three checks.
C10_Witness ==
    /\ op = "main_validate"
    /\ Decodes(arg)
    /\ arg.text = Text(RecordJson(JString(SPEC_VERSION), JChars(SCHEMA_VERSION), JUInt(0),
                                  ExampleFunctionsJson, Lit(58, -2), Lit(42, -2),
                                  JString("Normal"), JString("L2")), FALSE)
    /\ Failing(validate_all(from_str(arg.text, arg.float_roundtrip).v))
           = {"INV-R4", "INV-C1", "INV-C3"}
    /\ ret.exit = 1 /\ Len(ret.stdout) = 14
    /\ ret.stdout[4][1] = "FAIL" /\ ret.stdout[5][1] = "FAIL" /\ ret.stdout[1][1] = "PASS"

\* A text with a key beyond the eight fields of a record, or an array with
\* a JSON value beyond the eight.
CarriesExtraField(stdin) ==
    /\ stdin.readable
    /\ \/ /\ stdin.text.value.t = "object"
          /\ \E i \in 1..Len(stdin.text.value.m) :
                 stdin.text.value.m[i][1] \notin RecordFields
       \/ /\ stdin.text.value.t = "array"
          /\ Len(stdin.text.value.a) > 8
          /\ ~HasInvalid(stdin.text.value.a[9])

\* C11: a payload with a top-level field beyond the canonical eight fails at
\* the decode step: no record is produced and no check is run on it (no result
\* line, a JSON parse error on stderr, exit 1); whatever was decoded had
\* exactly the eight fields, and INV-S2 passes for every record validated.
C11_ExtraFieldNeverDecoded ==
    /\ op = "main_validate" =>
           /\ CarriesExtraField(arg) =>
                  /\ ret.stdout = <<>>
                  /\ ret.exit = 1
                  /\ ret.stderr[1][1] = "JSON parse error: "
           /\ (ret.stdout # <<>> /\ arg.text.value.t = "object") =>
                  /\ Len(arg.text.value.m) = 8
                  /\ {arg.text.value.m[i][1] : i \in 1..8} = RecordFields
           /\ ret.stdout # <<>> =>
                  /\ ret.stdout[9][1] = "PASS" /\ ret.stdout[9][2] = "INV-S2"
    /\ Validated => ret.results[9].id = "INV-S2" /\ ret.results[9].passed

\* The example record, well typed, with one extra top-level key: rejected.
C11_Witness ==
    /\ op = "main_validate"
    /\ arg.readable
    /\ arg.text = Text(InsertLast(ExampleJson, <<"extra_field", JString("should_fail")>>),
                       FALSE)
    /\ ret.exit = 1 /\ ret.stdout = <<>>
    /\ ret.stderr[1] = <<"JSON parse error: ", "unknown field ", "extra_field">>

\* The pass/fail outcome of each result, in order.
PassVector(results) == [i \in 1..Len(results) |-> results[i].passed]

\* C12: two records that differ only in their function values, both sets
\* inside [0,1], or only in stability_score, both inside [0,1], get the same
\* pass/fail outcome for each of the twelve checks; the example record, whose
\* stability_score 0.58 is not the mean of its function values, is conforming.
C12_ScoresNotTiedToFunctions ==
    /\ op = "vary" =>
           LET differ_in_functions ==
                   /\ prev.record = [arg EXCEPT !.functions = prev.record.functions]
                   /\ ~OutsideUnit(arg.functions.baseline) /\ ~OutsideUnit(arg.functions.norm)
                   /\ ~OutsideUnit(arg.functions.stability)
                   /\ ~OutsideUnit(arg.functions.meta_control)
                   /\ ~OutsideUnit(prev.record.functions.baseline)
                   /\ ~OutsideUnit(prev.record.functions.norm)
                   /\ ~OutsideUnit(prev.record.functions.stability)
                   /\ ~OutsideUnit(prev.record.functions.meta_control)
               differ_in_stability ==
                   /\ prev.record = [arg EXCEPT !.stability_score = prev.record.stability_score]
                   /\ ~OutsideUnit(arg.stability_score)
                   /\ ~OutsideUnit(prev.record.stability_score)
           IN  (differ_in_functions \/ differ_in_stability) =>
                   /\ Len(ret.results) = 12 /\ Len(prev.results) = 12
                   /\ PassVector(ret.results) = PassVector(prev.results)
    /\ (op = "validate" /\ arg = ExampleRecord) =>
           /\ demo_stability_score(arg.functions) = F0_3625
           /\ arg.stability_score = F0_58
           /\ ret.valid /\ Failing(ret.results) = {}

\* The example record with every function value set to 1.0 and the
\* stability_score left at 0.58: still conforming.
C12_Witness ==
    /\ op = "vary"
    /\ prev.record = ExampleRecord
    /\ prev.edit = <<"functions", Functions(F1, F1, F1, F1)>>
    /\ arg.functions = Functions(F1, F1, F1, F1) /\ arg.stability_score = F0_58
    /\ Failing(prev.results) = {} /\ Failing(ret.results) = {} /\ ret.valid

\* C13: in the results of one validate_all call, INV-C3 passes exactly when
\* INV-C1 and INV-C2 both pass; so INV-C3 fails when risk_score is outside
\* [0,1] or NaN, and when mode is not one of the five canonical modes.
C13_C3IsC1AndC2 ==
    Validated =>
        LET results == ret.results
        IN  /\ results[5].id = "INV-C1" /\ results[6].id = "INV-C2"
            /\ results[7].id = "INV-C3"
            /\ results[7].passed <=> (results[5].passed /\ results[6].passed)
            /\ OutsideUnit(arg.risk_score) => ~results[7].passed
            /\ arg.mode \notin {MODES[i] : i \in 1..5} => ~results[7].passed

\* mode is the mode of the risk_score but risk_level is not the level of that
\* mode: INV-C1 passes, INV-C2 and INV-C3 fail, nothing else does.
C13_Witness ==
    /\ op = "validate"
    /\ arg.risk_score = F0_42 /\ arg.mode = "Caution" /\ arg.risk_level = "L4"
    /\ ret.results[5].passed /\ ~ret.results[6].passed /\ ~ret.results[7].passed
    /\ Failing(ret.results) = {"INV-C2", "INV-C3"}

\* s is three non-empty runs of decimal digits separated by two dots.
ThreeNonNegativeIntegers(s) ==
    LET dots == {i \in 1..Len(s) : s[i] = "."}
    IN  /\ Cardinality(dots) = 2
        /\ \A i \in (1..Len(s)) \ dots : IsDigit(s[i])
        /\ 1 \notin dots /\ Len(s) \notin dots
        /\ \A i \in dots : i + 1 \notin dots

\* C14: INV-S4 passes exactly when schema_version is three dot-separated
\* components, each a non-negative integer of any size: a signed component
\* fails, an integer beyond 32 bits passes.
C14_S4IffThreeNonNegativeIntegers ==
    Validated =>
        /\ ret.results[11].id = "INV-S4"
        /\ ret.results[11].passed <=> ThreeNonNegativeIntegers(arg.schema_version)

\* C15: INV-S1 fails exactly when one of the four strings is empty, and then
\* INV-S3 (empty spec_version), INV-S4 (empty schema_version) or INV-C2 (empty
\* mode or risk_level) fails too, so the verdict is the same with INV-S1 left
\* out; a record that is valid has a canonical mode and a risk level in L1..L5.
C15_S1NeverAloneFailing ==
    Validated =>
        LET failing == Failing(ret.results)
        IN  /\ "INV-S1" \in failing <=>
                   \/ arg.spec_version = "" \/ arg.schema_version = <<>>
                   \/ arg.mode = "" \/ arg.risk_level = ""
            /\ "INV-S1" \in failing => failing \cap {"INV-S3", "INV-S4", "INV-C2"} # {}
            /\ arg.spec_version = "" => "INV-S3" \in failing
            /\ arg.schema_version = <<>> => "INV-S4" \in failing
            /\ (arg.mode = "" \/ arg.risk_level = "") => "INV-C2" \in failing
            /\ ret.valid <=> failing \ {"INV-S1"} = {}
            /\ ret.valid =>
                   /\ arg.mode \in {MODES[i] : i \in 1..5}
                   /\ arg.risk_level \in {RISK_LEVELS[i] : i \in 1..5}

\* The example record with an empty risk_level: INV-S1 fails, and with it
\* INV-C2 and INV-C3.
C15_Witness ==
    /\ op \in {"validate", "perturb"}
    /\ arg = [ExampleRecord EXCEPT !.risk_level = ""]
    /\ Failing(ret.results) = {"INV-C2", "INV-C3", "INV-S1"}
    /\ ~ret.valid

====
